---- MODULE Spec2Model ----
(***************************************************************************)
(* Model of vector_convolution.c: the driver (main), the reference         *)
(* convolution multichannel_conv, the OpenMP convolution student_conv and  *)
(* the checker check_result.                                               *)
(*                                                                         *)
(* Numbers.  A float or double value v is represented by the integer       *)
(* v * Unit (Unit = 16), so that EPSILON = 0.0625 is the integer 1.  Every *)
(* value of the model is a multiple of 1/16; the float type keeps 24       *)
(* significant bits (FloatRound); a double keeps 53, more than any value   *)
(* of the model needs, so double arithmetic is exact here.                 *)
(*                                                                         *)
(* Threads.  student_conv's "#pragma omp parallel for" runs the loop over  *)
(* m on nthreads threads.  m and the variables declared inside the loop    *)
(* body (sum, the inner c_index, the vector temporaries) are private to a  *)
(* thread; w, h, c, x, mo_index, m_index, w_index, h_index, x_index are    *)
(* declared before the construct and named in no clause, so they are       *)
(* shared.  One step of a thread is the evaluation of one loop condition,  *)
(* or the statements from one loop condition to the next.                  *)
(***************************************************************************)
EXTENDS Integers, Sequences, FiniteSets, TLC

(* ------------------------------ bounds --------------------------------- *)
\* largest width / height / nchannels / nkernels on the command line
MaxDim == 2
\* largest number of kernel rows (m, w, h, c, x) one run with valid arguments
\* reduces: nkernels * width * height * nchannels * kernel_order
MaxWork == 16
\* largest number of threads of the OpenMP team
MaxThreads == 2
\* a team of more than one thread runs only calls of at most MaxParallelWork
\* kernel rows
MaxParallelWork == 2
\* seeds tv_usec can take in the model: 0..MaxSeed
MaxSeed == 0
\* random() returns values in 0..RandMax in the model
RandMax == 3
\* largest number of cells of a tensor handed to check_result on its own
MaxCheckCells == 2

(* -------------------------- program constants -------------------------- *)
Unit == 16
\* const double EPSILON = 0.0625, in units of 1/Unit
EPSILON == 1
\* gen_random_4d_matrix_float: range = 1 << 12, bias = 1 << 10
FloatRange == 4096
FloatBias == 1024
\* gen_random_4d_matrix_int16: range = 1 << 10
Int16Range == 1024
\* argc of a well-formed command line
ArgcExpected == 6
\* significand of a float: 24 bits
FloatMantissa == 16777216

\* content of malloc'ed memory that was never written
Uninit == -1
\* values an indeterminate (uninitialised or out-of-buffer) read can yield
GarbageVals == {0, 3 * Unit}

VARIABLES
    pc,              \* where main is
    openmp,          \* the build: TRUE when the OpenMP pragmas are honoured
    argv,            \* the command line after the program name, as atoi reads it
    width, height, kernel_order, nchannels, nkernels,
    imgSeed, kerSeed,\* the seeds the two generator calls took from the clock
    output, control_output,   \* the two output tensors: [shape, data]
    ref,             \* frame of multichannel_conv: m, w, h, c, sum
    nthreads,        \* size of the team of student_conv's parallel region
    sh,              \* student_conv's shared variables
    th,              \* per thread: pc and the private m, sum, c_index
    claimed,         \* iterations m of the parallel loop handed to a thread
    chk,             \* frame of check_result: i, j, k, sum_abs_diff
    verdict,         \* what check_result printed
    exitStatus,      \* exit status of the process, -1 while it runs
    calls,           \* history: the functions main has invoked
    generated,       \* history: TRUE once main generated/allocated the tensors
    ctlWrites,       \* history: stores into each cell by multichannel_conv (2: twice or more)
    outWrites,       \* history: per cell and m, the stores by iteration m (2: twice or more)
    strayStores,     \* history: the stores [m, idx] of student_conv outside output[m]
    oobReads         \* history: the image reads with an index outside its dimension

vars == <<pc, openmp, argv, width, height, kernel_order, nchannels, nkernels,
          imgSeed, kerSeed, output, control_output, ref, nthreads, sh, th,
          claimed, chk, verdict, exitStatus, calls, generated, ctlWrites,
          outWrites, strayStores, oobReads>>

(* ------------------------------ numbers -------------------------------- *)
Abs(n) == IF n < 0 THEN -n ELSE n

RECURSIVE Ulp(_, _)
\* the spacing of floats around n >= 0: the least power of two p with n/p < 2^24
Ulp(n, p) == IF n \div p < FloatMantissa THEN p ELSE Ulp(n, 2 * p)

\* conversion to float: round to nearest, ties to even, 24 significant bits
FloatRoundNat(n) ==
    LET p == Ulp(n, 1)
        q == n \div p
        r == n % p
    IN  IF p = 1 THEN n
        ELSE IF 2 * r > p \/ (2 * r = p /\ q % 2 = 1) THEN (q + 1) * p
        ELSE q * p

FloatRound(n) == IF n < 0 THEN -FloatRoundNat(-n) ELSE FloatRoundNat(n)

\* float * int16: the integer is converted to float, the product is a float
FloatMul(f, k) == FloatRound(f * k)

(* ------------------------------ tensors -------------------------------- *)
\* new_empty_4d_matrix_*: one buffer mat3 of dim0*dim1*dim2*dim3 elements and
\* pointer tables into it; a[i][j][k] of a 3d matrix of shape <<d0,d1,d2>> is
\* element (i*d1 + j)*d2 + k of the buffer.
Flat3(shape, i, j, k) == (i * shape[2] + j) * shape[3] + k
Flat4(shape, i, j, k, l) == ((i * shape[2] + j) * shape[3] + k) * shape[4] + l

Size3(shape) == shape[1] * shape[2] * shape[3]

\* a[i][j][k] follows the pointer tables: a[i] is read from the table of d0
\* entries, a[i][j] from the table of d0*d1 entries, then the element from the
\* buffer; each read is defined only inside its table.
InBuffer3(shape, i, j, k) ==
    /\ i >= 0 /\ j >= 0 /\ k >= 0
    /\ i < shape[1]
    /\ i * shape[2] + j < shape[1] * shape[2]
    /\ Flat3(shape, i, j, k) < Size3(shape)

\* every index inside its own dimension
InShape3(shape, i, j, k) ==
    /\ 0 <= i /\ i < shape[1]
    /\ 0 <= j /\ j < shape[2]
    /\ 0 <= k /\ k < shape[3]

\* new_empty_3d_matrix_float: malloc'ed, never cleared
NewEmpty3d(d0, d1, d2) ==
    [shape |-> <<d0, d1, d2>>,
     data  |-> [n \in 0 .. (d0 * d1 * d2 - 1) |-> Uninit]]

NoTensor == [shape |-> <<0, 0, 0>>, data |-> [n \in {} |-> Uninit]]

\* random(): the n-th value of the stream srandom(seed) starts
Random(seed, n) == ((seed + 1) * (n + 1) * 5 + n * n + seed) % (RandMax + 1)

\* gen_random_4d_matrix_float fills the buffer in index order with
\* (random() % range) + bias
ImageShape == <<width + kernel_order, height + kernel_order, nchannels>>
ImageAt(n) == ((Random(imgSeed, n) % FloatRange) + FloatBias) * Unit

\* gen_random_4d_matrix_int16 fills the buffer in index order with
\* random() % range
KernelShape == <<nkernels, nchannels, kernel_order, kernel_order>>
KernelSize == nkernels * nchannels * kernel_order * kernel_order
KernelAt(n) == Random(kerSeed, n) % Int16Range

OutputShape == <<nkernels, width, height>>

(* ------------------------------- frames -------------------------------- *)
NoRef == [m |-> 0, w |-> 0, h |-> 0, c |-> 0, sum |-> 0]
NoChk == [dim0 |-> 0, dim1 |-> 0, dim2 |-> 0, i |-> 0, j |-> 0, k |-> 0,
          sum_abs_diff |-> 0, n |-> 0]
NoShared == [w |-> 0, h |-> 0, c |-> 0, x |-> 0, mo_index |-> 0, m_index |-> 0,
             w_index |-> 0, h_index |-> 0, x_index |-> 0]
NoThread == [pc |-> "idle", m |-> 0, sum |-> 0, c_index |-> 0]

(* ------------------------------- main ---------------------------------- *)
\* mutant: the switch lets every positive order through
ValidOrderAnyPositive(k) == k >= 1

\* the switch of main: case 1, 3, 5, 7
ValidOrder(k) == k \in {1, 3, 5, 7}

DimArgs == -1 .. MaxDim
OrderArgs == 0 .. 8

\* the kernel rows a call with arguments a reduces; the loops over m, w, h
\* also run when there is no channel
Work(a) ==
    IF a[1] <= 0 \/ a[2] <= 0 \/ a[5] <= 0 THEN 0
    ELSE a[5] * a[1] * a[2] * (IF a[4] <= 0 THEN 1 ELSE a[4] * a[3])

\* the command lines of the model: five numbers, or too few arguments
ArgVectors ==
    {a \in DimArgs \X DimArgs \X OrderArgs \X DimArgs \X DimArgs :
        ValidOrder(a[3]) => Work(a) <= MaxWork}
    \cup {<<>>, <<1, 1, 1>>}

Init ==
    /\ pc = "start"
    /\ openmp \in BOOLEAN
    /\ argv \in ArgVectors
    /\ width = 0 /\ height = 0 /\ kernel_order = 0
    /\ nchannels = 0 /\ nkernels = 0
    /\ imgSeed = 0 /\ kerSeed = 0
    /\ output = NoTensor /\ control_output = NoTensor
    /\ ref = NoRef
    /\ nthreads = 1
    /\ sh = NoShared
    /\ th = [t \in 1 .. 1 |-> NoThread]
    /\ claimed = {}
    /\ chk = NoChk
    /\ verdict = "none"
    /\ exitStatus = -1
    /\ calls = {}
    /\ generated = FALSE
    /\ ctlWrites = [n \in {} |-> 0]
    /\ outWrites = [n \in {} |-> <<>>]
    /\ strayStores = {}
    /\ oobReads = {}

argVars == <<openmp, argv, width, height, kernel_order, nchannels, nkernels>>
genVars == <<imgSeed, kerSeed>>
refVars == <<ref, ctlWrites>>
stuVars == <<nthreads, sh, th, claimed, outWrites, strayStores>>
chkVars == <<chk, verdict>>

\* SIGSEGV ends the process
Segv == -2
SegvStatus == 139

\* if (argc != 6) { usage; exit(1); } else width = atoi(argv[1]) ...
Main_ParseArgs ==
    /\ pc = "start"
    /\ IF Len(argv) + 1 # ArgcExpected
       THEN /\ pc' = "exited"
            /\ exitStatus' = 1
            /\ UNCHANGED <<width, height, kernel_order, nchannels, nkernels>>
       ELSE /\ pc' = "switch"
            /\ width' = argv[1]
            /\ height' = argv[2]
            /\ kernel_order' = argv[3]
            /\ nchannels' = argv[4]
            /\ nkernels' = argv[5]
            /\ UNCHANGED exitStatus
    /\ UNCHANGED <<openmp, argv, genVars, output, control_output, refVars,
                   stuVars, chkVars, calls, generated, oobReads>>

\* switch (kernel_order) { case 1: case 3: case 5: case 7: break;
\*                         default: FATAL; exit(1); }
Main_Switch ==
    /\ pc = "switch"
    /\ IF ValidOrder(kernel_order)
       THEN pc' = "allocate" /\ UNCHANGED exitStatus
       ELSE pc' = "exited" /\ exitStatus' = 1
    /\ UNCHANGED <<argVars, genVars, output, control_output, refVars,
                   stuVars, chkVars, calls, generated, oobReads>>

\* image = gen_random_3d_matrix_float(...); kernels = gen_random_4d_matrix_int16(...);
\* output = new_empty_3d_matrix_float(...); control_output = new_empty_3d_matrix_float(...)
Main_Allocate ==
    /\ pc = "allocate"
    /\ \E s1 \in 0 .. MaxSeed, s2 \in 0 .. MaxSeed :
          imgSeed' = s1 /\ kerSeed' = s2
    /\ output' = NewEmpty3d(nkernels, width, height)
    /\ control_output' = NewEmpty3d(nkernels, width, height)
    /\ generated' = TRUE
    /\ pc' = "control"
    /\ UNCHANGED <<argVars, refVars, stuVars, chkVars, exitStatus, calls, oobReads>>

(* -------------------------- multichannel_conv -------------------------- *)
RECURSIVE SumTo(_, _)
\* f(0) + ... + f(n-1)
SumTo(f, n) == IF n <= 0 THEN 0 ELSE SumTo(f, n - 1) + f[n - 1]

\* kernels[m][c][x][y] and image[i][j][c] of the generated tensors
Kernel(m, c, x, y) == KernelAt(Flat4(KernelShape, m, c, x, y))
Image(i, j, c) == ImageAt(Flat3(ImageShape, i, j, c))

\* mutant: the loop over y stops one column early
RefWindowShortRow(m, w, h, c) ==
    SumTo([x \in 0 .. kernel_order - 1 |->
             SumTo([y \in 0 .. kernel_order - 2 |->
                      FloatMul(Image(w + x, h + y, c), Kernel(m, c, x, y))],
                   kernel_order - 1)],
          kernel_order)

\* for (x ...) for (y ...) sum += image[w + x][h + y][c] * kernels[m][c][x][y];
RefWindow(m, w, h, c) ==
    SumTo([x \in 0 .. kernel_order - 1 |->
             SumTo([y \in 0 .. kernel_order - 1 |->
                      FloatMul(Image(w + x, h + y, c), Kernel(m, c, x, y))],
                   kernel_order)],
          kernel_order)

\* the loops over m, w, h (and c inside) have at least one iteration
RefHasWork == nkernels >= 1 /\ width >= 1 /\ height >= 1 /\ nchannels >= 1

\* main calls multichannel_conv(image, kernels, control_output, ...)
Ref_Enter ==
    /\ pc = "control"
    /\ calls' = calls \cup {"multichannel_conv"}
    /\ ref' = NoRef
    /\ ctlWrites' = [n \in DOMAIN control_output.data |-> 0]
    /\ pc' = "control_run"
    /\ UNCHANGED <<argVars, genVars, output, control_output, stuVars, chkVars,
                   exitStatus, generated, oobReads>>

\* the loop position after iteration c of cell (m, w, h)
RefAdvance(r, s) ==
    IF r.c + 1 < nchannels THEN [r EXCEPT !.c = r.c + 1, !.sum = s]
    ELSE IF r.h + 1 < height THEN [r EXCEPT !.c = 0, !.h = r.h + 1, !.sum = 0]
    ELSE IF r.w + 1 < width THEN [r EXCEPT !.c = 0, !.h = 0, !.w = r.w + 1, !.sum = 0]
    ELSE [m |-> r.m + 1, w |-> 0, h |-> 0, c |-> 0, sum |-> 0]

\* one iteration of the loop over c: the window of channel c is added to sum
\* and output[m][w][h] = (float) sum is stored (line 342, inside the loop)
Ref_Step ==
    /\ pc = "control_run"
    /\ RefHasWork
    /\ ref.m < nkernels
    /\ LET s == ref.sum + RefWindow(ref.m, ref.w, ref.h, ref.c)
           n == Flat3(OutputShape, ref.m, ref.w, ref.h)
       IN  /\ control_output' = [control_output EXCEPT !.data[n] = FloatRound(s)]
           /\ ctlWrites' = [ctlWrites EXCEPT ![n] = IF @ + 1 < 2 THEN @ + 1 ELSE 2]
           /\ ref' = RefAdvance(ref, s)
           /\ oobReads' = oobReads \cup
                  {r \in {<<ref.w + x, ref.h + y, ref.c>> :
                             x \in 0 .. kernel_order - 1, y \in 0 .. kernel_order - 1} :
                      ~InShape3(ImageShape, r[1], r[2], r[3])}
    /\ UNCHANGED <<pc, argVars, genVars, output, stuVars, chkVars, exitStatus,
                   calls, generated>>

Ref_Return ==
    /\ pc = "control_run"
    /\ ~RefHasWork \/ ref.m >= nkernels
    /\ pc' = "student"
    /\ UNCHANGED <<argVars, genVars, output, control_output, refVars, stuVars,
                   chkVars, exitStatus, calls, generated, oobReads>>

(* ----------------------------- student_conv ---------------------------- *)
\* int16_t *kernel_pointer = ***kernels; float *output_pointer = **output;
\* kernels[0][0][0] and output[0][0] are entries of the pointer tables the
\* allocation filled only when the dimensions before them are positive
PrologueDefined == nkernels >= 1 /\ nchannels >= 1 /\ width >= 1

kernel_order_squared == kernel_order * kernel_order
m_mult == kernel_order_squared * nchannels
mo_mult == width * height

\* main calls student_conv(image, kernels, output, ...): the declarations up to
\* line 366, then the team of the parallel region starts
Student_Enter ==
    /\ pc = "student"
    /\ calls' = calls \cup {"student_conv"}
    /\ \E o \in (IF PrologueDefined THEN {0} ELSE {0, Segv}) :
         IF o = Segv
         THEN /\ pc' = "crashed"
              /\ exitStatus' = SegvStatus
              /\ UNCHANGED <<nthreads, th, outWrites>>
         ELSE /\ pc' = "parallel"
              /\ \E n \in 1 .. (IF openmp /\ Work(argv) <= MaxParallelWork
                               THEN MaxThreads ELSE 1) :
                    /\ nthreads' = n
                    /\ th' = [t \in 1 .. n |-> NoThread]
              /\ outWrites' = [n \in DOMAIN output.data |->
                                 [m \in 0 .. nkernels - 1 |-> 0]]
              /\ UNCHANGED exitStatus
    /\ sh' = NoShared
    /\ claimed' = {}
    /\ strayStores' = {}
    /\ UNCHANGED <<argVars, genVars, output, control_output, refVars, chkVars,
                   generated, oobReads>>

\* what a step of a thread leaves alone
ThreadFrame ==
    UNCHANGED <<argVars, genVars, control_output, refVars, nthreads, chkVars,
                calls, generated>>

Threads == 1 .. nthreads

\* image[i][j][c] as the pointer tables resolve it; g when the read leaves them
ImgVal(r, g) ==
    IF InBuffer3(ImageShape, r[1], r[2], r[3])
    THEN ImageAt(Flat3(ImageShape, r[1], r[2], r[3]))
    ELSE g

ImgDefined(rs) == \A r \in rs : InBuffer3(ImageShape, r[1], r[2], r[3])

\* kernel_pointer[n]; g when n is outside the kernel buffer
KerVal(n, g) == IF 0 <= n /\ n < KernelSize THEN KernelAt(n) ELSE g

KerDefined(ns) == \A n \in ns : 0 <= n /\ n < KernelSize

\* outcomes of a statement: its defined one, or for a statement that reads or
\* writes outside a buffer a garbage value read or the end of the process
Outcomes(defined) == IF defined THEN {0} ELSE GarbageVals \cup {Segv}

\* the process ends with SIGSEGV
Crash ==
    /\ pc' = "crashed"
    /\ exitStatus' = SegvStatus
    /\ UNCHANGED <<sh, th, claimed, output, outWrites, strayStores, oobReads>>

\* the image reads among rs with an index outside its dimension
OutOfShape(rs) == {r \in rs : ~InShape3(ImageShape, r[1], r[2], r[3])}

\* a step that only assigns shared variables and moves the thread to loc
Assign(t, loc, newSh) ==
    /\ pc = "parallel"
    /\ sh' = newSh
    /\ th' = [th EXCEPT ![t].pc = loc]
    /\ UNCHANGED <<pc, exitStatus, claimed, output, outWrites, strayStores, oobReads>>
    /\ ThreadFrame

\* the parallel for hands iteration m to a thread of the team (no schedule
\* clause: which thread runs which iteration is up to the implementation):
\*   mo_index = m * mo_mult; m_index = m * m_mult; for (w = 0; ...
T_Begin(t) ==
    /\ pc = "parallel" /\ th[t].pc = "idle"
    /\ \E m \in (0 .. nkernels - 1) \ claimed :
          /\ claimed' = claimed \cup {m}
          /\ th' = [th EXCEPT ![t].pc = "wt", ![t].m = m]
          /\ sh' = [sh EXCEPT !.mo_index = m * mo_mult, !.m_index = m * m_mult,
                              !.w = 0]
    /\ UNCHANGED <<pc, exitStatus, output, outWrites, strayStores, oobReads>>
    /\ ThreadFrame

\* no iteration is left for the thread: it waits at the barrier
T_Finish(t) ==
    /\ pc = "parallel" /\ th[t].pc = "idle"
    /\ (0 .. nkernels - 1) \ claimed = {}
    /\ th' = [th EXCEPT ![t].pc = "done"]
    /\ UNCHANGED <<pc, exitStatus, sh, claimed, output, outWrites, strayStores, oobReads>>
    /\ ThreadFrame

\* ... w < width; ...   the end of the loop ends iteration m
T_wt(t) ==
    /\ th[t].pc = "wt"
    /\ Assign(t, IF sh.w < width THEN "wbody" ELSE "idle", sh)

\* w_index = w * height + mo_index; for (h = 0; ...
T_wbody(t) ==
    /\ th[t].pc = "wbody"
    /\ Assign(t, "ht", [sh EXCEPT !.w_index = sh.w * height + sh.mo_index, !.h = 0])

\* ... h < height; ...
T_ht(t) ==
    /\ th[t].pc = "ht"
    /\ Assign(t, IF sh.h < height THEN "hbody" ELSE "winc", sh)

\* h_index = h + w_index; double sum = 0.0; for (c = 0; ...
T_hbody(t) ==
    /\ th[t].pc = "hbody"
    /\ pc = "parallel"
    /\ sh' = [sh EXCEPT !.h_index = sh.h + sh.w_index, !.c = 0]
    /\ th' = [th EXCEPT ![t].pc = "ct", ![t].sum = 0]
    /\ UNCHANGED <<pc, exitStatus, claimed, output, outWrites, strayStores, oobReads>>
    /\ ThreadFrame

\* ... c < nchannels; ...
T_ct(t) ==
    /\ th[t].pc = "ct"
    /\ Assign(t, IF sh.c < nchannels THEN "cbody" ELSE "store", sh)

\* int c_index = c * kernel_order_squared + m_index;
\* kernel_order == 1:
\*   #pragma omp parallel for private(x, sum)
\*   for (x = 0; x < kernel_order; x++) {
\*       x_index = x * kernel_order + c_index;
\*       sum += image[w + x][h][c] * kernel_pointer[x_index]; }
\*   ... c++)
\* With the pragma honoured x and sum are private copies of the inner region:
\* the product is added to the copy, which is dropped when the region ends, and
\* the sum of the enclosing loop keeps its value.  Without OpenMP it is the
\* plain loop on x, run once.
\* kernel_order == 3, 5, 7:  for (x = 0; ...
T_cbody(t) ==
    /\ th[t].pc = "cbody"
    /\ pc = "parallel"
    /\ LET ci == sh.c * kernel_order_squared + sh.m_index
           x == 0
           xi == x * kernel_order + ci
           r == <<sh.w + x, sh.h, sh.c>>
       IN  IF kernel_order = 1
           THEN \E o \in Outcomes(ImgDefined({r}) /\ KerDefined({xi})) :
                  IF o = Segv THEN Crash
                  ELSE /\ oobReads' = oobReads \cup OutOfShape({r})
                       /\ th' = [th EXCEPT
                              ![t].pc = "ct",
                              ![t].c_index = ci,
                              ![t].sum = IF openmp THEN @
                                         ELSE @ + FloatMul(ImgVal(r, o), KerVal(xi, o))]
                       /\ sh' = [sh EXCEPT !.x_index = xi,
                                           !.x = IF openmp THEN @ ELSE x + 1,
                                           !.c = sh.c + 1]
                       /\ UNCHANGED <<pc, exitStatus, claimed, output, outWrites,
                                      strayStores>>
           ELSE /\ th' = [th EXCEPT ![t].pc = "xt", ![t].c_index = ci]
                /\ sh' = [sh EXCEPT !.x = 0]
                /\ UNCHANGED <<pc, exitStatus, claimed, output, outWrites,
                               strayStores, oobReads>>
    /\ ThreadFrame

\* ... x < kernel_order; ...
T_xt(t) ==
    /\ th[t].pc = "xt"
    /\ Assign(t, IF sh.x < kernel_order THEN "xbody" ELSE "cinc", sh)

\* the value of one kernel row (the reduction over y) from its taps:
\* order 3: mul = _mm_mul_ps(img, kern): float products;
\*          _mm_dp_ps(mul, 1.0, 0x71): (mul[3] masked + mul[2]) + (mul[1] + mul[0])
\*          in float
\* order 5: _mm_mul_pd, _mm_add_pd, _mm_add_sd on doubles:
\*          ([3] + [1]) + ([0] + ([4] + [2]))
\* order 7: seven scalar statements sum += float product
RowSum(img, kern) ==
    IF kernel_order = 3
    THEN FloatRound(FloatRound(FloatMul(img[2], kern[2]))
                    + FloatRound(FloatMul(img[1], kern[1]) + FloatMul(img[0], kern[0])))
    ELSE IF kernel_order = 5
    THEN (img[3] * kern[3] + img[1] * kern[1])
         + (img[0] * kern[0] + (img[4] * kern[4] + img[2] * kern[2]))
    ELSE SumTo([y \in 0 .. kernel_order - 1 |-> FloatMul(img[y], kern[y])],
               kernel_order)

\* one kernel row: x_index = x * kernel_order + c_index; the taps
\* image[w + x][h + y][c] and kernel_pointer[y + x_index], y < kernel_order;
\* sum += the row; ... x++)
T_xbody(t) ==
    /\ th[t].pc = "xbody"
    /\ pc = "parallel"
    /\ LET xi == sh.x * kernel_order + th[t].c_index
           ys == 0 .. kernel_order - 1
           rs == {<<sh.w + sh.x, sh.h + y, sh.c>> : y \in ys}
           ns == {y + xi : y \in ys}
       IN  \E o \in Outcomes(ImgDefined(rs) /\ KerDefined(ns)) :
             IF o = Segv THEN Crash
             ELSE /\ oobReads' = oobReads \cup OutOfShape(rs)
                  /\ th' = [th EXCEPT
                         ![t].pc = "xt",
                         ![t].sum = @ + RowSum(
                             [y \in ys |-> ImgVal(<<sh.w + sh.x, sh.h + y, sh.c>>, o)],
                             [y \in ys |-> KerVal(y + xi, o)])]
                  /\ sh' = [sh EXCEPT !.x_index = xi, !.x = sh.x + 1]
                  /\ UNCHANGED <<pc, exitStatus, claimed, output, outWrites, strayStores>>
    /\ ThreadFrame

\* ... c++)
T_cinc(t) == th[t].pc = "cinc" /\ Assign(t, "ct", [sh EXCEPT !.c = sh.c + 1])

\* the cells of output[m]: flat offsets m*width*height .. (m+1)*width*height - 1
Slab(m) == (m * width * height) .. ((m + 1) * width * height - 1)

Min(a, b) == IF a < b THEN a ELSE b

\* output_pointer[h_index] = (float) sum; ... h++)   a store outside the output
\* buffer lands in other heap memory or ends the process
T_store(t) ==
    /\ th[t].pc = "store"
    /\ pc = "parallel"
    /\ LET n == sh.h_index
           m == th[t].m
           inside == n \in DOMAIN output.data
       IN  \E o \in (IF inside THEN {0} ELSE {0, Segv}) :
             IF o = Segv THEN Crash
             ELSE /\ output' = IF inside
                               THEN [output EXCEPT !.data[n] = FloatRound(th[t].sum)]
                               ELSE output
                  /\ outWrites' = IF inside
                                  THEN [outWrites EXCEPT ![n][m] = Min(@ + 1, 2)]
                                  ELSE outWrites
                  /\ strayStores' = IF n \in Slab(m) THEN strayStores
                                    ELSE strayStores \cup {[m |-> m, idx |-> n]}
                  /\ th' = [th EXCEPT ![t].pc = "ht"]
                  /\ sh' = [sh EXCEPT !.h = sh.h + 1]
                  /\ UNCHANGED <<pc, exitStatus, claimed, oobReads>>
    /\ ThreadFrame

\* ... w++)
T_winc(t) == th[t].pc = "winc" /\ Assign(t, "wt", [sh EXCEPT !.w = sh.w + 1])

\* the barrier at the end of the parallel region, then student_conv returns
Student_Return ==
    /\ pc = "parallel"
    /\ \A t \in Threads : th[t].pc = "done"
    /\ pc' = "check"
    /\ UNCHANGED <<argVars, genVars, output, control_output, refVars, stuVars,
                   chkVars, exitStatus, calls, generated, oobReads>>

(* ----------------------------- check_result ---------------------------- *)
\* SIGABRT of a failed assert
AbortStatus == 134

\* the values a read of a[i][j][k] can yield: the element; any value for an
\* element never written; any value or the end of the process outside the tables
ReadOutcomes(a, i, j, k) ==
    IF ~InBuffer3(a.shape, i, j, k) THEN GarbageVals \cup {Segv}
    ELSE IF a.data[Flat3(a.shape, i, j, k)] = Uninit THEN GarbageVals
    ELSE {a.data[Flat3(a.shape, i, j, k)]}

\* mutant: a sum equal to EPSILON is reported suspect
SuspectAtEpsilon(s) == s >= EPSILON

\* if (sum_abs_diff > EPSILON) WARNING ... else COMMENT ...
Suspect(s) == s > EPSILON

\* main calls check_result(output, control_output, nkernels, width, height)
Check_Enter ==
    /\ pc = "check"
    /\ calls' = calls \cup {"check_result"}
    /\ chk' = [dim0 |-> nkernels, dim1 |-> width, dim2 |-> height,
               i |-> 0, j |-> 0, k |-> 0, sum_abs_diff |-> 0, n |-> 0]
    /\ pc' = "check_run"
    /\ UNCHANGED <<argVars, genVars, output, control_output, refVars, stuVars,
                   verdict, exitStatus, generated, oobReads>>

CheckHasWork == chk.dim0 >= 1 /\ chk.dim1 >= 1 /\ chk.dim2 >= 1

\* the loop position after cell (i, j, k)
CheckAdvance(f) ==
    IF f.k + 1 < f.dim2 THEN [f EXCEPT !.k = f.k + 1]
    ELSE IF f.j + 1 < f.dim1 THEN [f EXCEPT !.k = 0, !.j = f.j + 1]
    ELSE [f EXCEPT !.k = 0, !.j = 0, !.i = f.i + 1]

\* double diff = fabs(control[i][j][k] - result[i][j][k]); assert(diff >= 0.0);
\* sum_abs_diff = sum_abs_diff + diff;
Check_Step ==
    /\ pc = "check_run"
    /\ CheckHasWork
    /\ chk.i < chk.dim0
    /\ \E cv \in ReadOutcomes(control_output, chk.i, chk.j, chk.k),
          rv \in ReadOutcomes(output, chk.i, chk.j, chk.k) :
         IF cv = Segv \/ rv = Segv
         THEN pc' = "crashed" /\ exitStatus' = SegvStatus /\ UNCHANGED chk
         ELSE LET diff == Abs(FloatRound(cv - rv))
              IN  IF diff >= 0
                  THEN /\ chk' = [CheckAdvance(chk) EXCEPT
                                     !.sum_abs_diff = chk.sum_abs_diff + diff,
                                     !.n = chk.n + 1]
                       /\ UNCHANGED <<pc, exitStatus>>
                  ELSE pc' = "crashed" /\ exitStatus' = AbortStatus /\ UNCHANGED chk
    /\ UNCHANGED <<argVars, genVars, output, control_output, refVars, stuVars,
                   verdict, calls, generated, oobReads>>

\* the report after the loops; check_result returns
Check_Verdict ==
    /\ pc = "check_run"
    /\ ~CheckHasWork \/ chk.i >= chk.dim0
    /\ verdict' = IF Suspect(chk.sum_abs_diff) THEN "suspect" ELSE "acceptable"
    /\ pc' = "return"
    /\ UNCHANGED <<argVars, genVars, output, control_output, refVars, stuVars,
                   chk, exitStatus, calls, generated, oobReads>>

\* return 0;
Main_Return ==
    /\ pc = "return"
    /\ pc' = "exited"
    /\ exitStatus' = 0
    /\ UNCHANGED <<argVars, genVars, output, control_output, refVars, stuVars,
                   chkVars, calls, generated, oobReads>>

(* ---------------------------- specifications --------------------------- *)
\* a step of some thread of the team
Thread_Begin == \E t \in Threads : T_Begin(t)
Thread_Finish == \E t \in Threads : T_Finish(t)
Thread_wt == \E t \in Threads : T_wt(t)
Thread_wbody == \E t \in Threads : T_wbody(t)
Thread_ht == \E t \in Threads : T_ht(t)
Thread_hbody == \E t \in Threads : T_hbody(t)
Thread_ct == \E t \in Threads : T_ct(t)
Thread_cbody == \E t \in Threads : T_cbody(t)
Thread_xt == \E t \in Threads : T_xt(t)
Thread_xbody == \E t \in Threads : T_xbody(t)
Thread_cinc == \E t \in Threads : T_cinc(t)
Thread_store == \E t \in Threads : T_store(t)
Thread_winc == \E t \in Threads : T_winc(t)

Next ==
    \/ Main_ParseArgs \/ Main_Switch \/ Main_Allocate
    \/ Ref_Enter \/ Ref_Step \/ Ref_Return
    \/ Student_Enter
    \/ Thread_Begin
    \/ Thread_Finish
    \/ Thread_wt
    \/ Thread_wbody
    \/ Thread_ht
    \/ Thread_hbody
    \/ Thread_ct
    \/ Thread_cbody
    \/ Thread_xt
    \/ Thread_xbody
    \/ Thread_cinc
    \/ Thread_store
    \/ Thread_winc
    \/ Student_Return
    \/ Check_Enter \/ Check_Step \/ Check_Verdict \/ Main_Return

\* a run of the program
Spec == Init /\ [][Next]_vars

\* a run of the program built without OpenMP: the pragmas are ignored and
\* student_conv runs on the calling thread
InitSerial == Init /\ openmp = FALSE

SpecSerial == InitSerial /\ [][Next]_vars

\* check_result called on its own with two tensors, each allocated with its own
\* shape, and the dimensions of the first; then main's return
CheckVals == {0, 1, 2}

CheckShapes ==
    {sp \in (1 .. MaxCheckCells) \X (1 .. MaxCheckCells) \X (1 .. MaxCheckCells) :
        Size3(sp) <= MaxCheckCells}

CheckTensors ==
    UNION {{[shape |-> sp, data |-> d] : d \in [0 .. Size3(sp) - 1 -> CheckVals]} :
             sp \in CheckShapes}

InitCheck ==
    /\ pc = "check"
    /\ openmp = FALSE
    /\ output \in CheckTensors
    /\ control_output \in CheckTensors
    /\ nkernels = output.shape[1]
    /\ width = output.shape[2]
    /\ height = output.shape[3]
    /\ kernel_order = 1 /\ nchannels = 1
    /\ argv = <<width, height, kernel_order, nchannels, nkernels>>
    /\ imgSeed = 0 /\ kerSeed = 0
    /\ ref = NoRef
    /\ nthreads = 1
    /\ sh = NoShared
    /\ th = [t \in 1 .. 1 |-> NoThread]
    /\ claimed = {}
    /\ chk = NoChk
    /\ verdict = "none"
    /\ exitStatus = -1
    /\ calls = {}
    /\ generated = TRUE
    /\ ctlWrites = [n \in {} |-> 0]
    /\ outWrites = [n \in {} |-> <<>>]
    /\ strayStores = {}
    /\ oobReads = {}

NextCheck == Check_Enter \/ Check_Step \/ Check_Verdict \/ Main_Return

SpecCheck == InitCheck /\ [][NextCheck]_vars

\* the steps of thread t of the team, and the steps of the calling thread
\* outside the parallel region
ThreadStep(t) ==
    /\ t \in Threads
    /\ \/ T_Begin(t) \/ T_Finish(t) \/ T_wt(t) \/ T_wbody(t) \/ T_ht(t)
       \/ T_hbody(t) \/ T_ct(t) \/ T_cbody(t) \/ T_xt(t) \/ T_xbody(t)
       \/ T_cinc(t) \/ T_store(t) \/ T_winc(t)

MainStep ==
    \/ Main_ParseArgs \/ Main_Switch \/ Main_Allocate
    \/ Ref_Enter \/ Ref_Step \/ Ref_Return
    \/ Student_Enter \/ Student_Return
    \/ Check_Enter \/ Check_Step \/ Check_Verdict \/ Main_Return

\* a run under a fair scheduler: the process keeps running while it can, and
\* every thread of the team that can take a step eventually takes one
Fairness ==
    /\ WF_vars(MainStep)
    /\ \A t \in 1 .. MaxThreads : WF_vars(ThreadStep(t))

SpecFair == Spec /\ Fairness

SpecSerialFair == SpecSerial /\ Fairness

(* ------------------------------ properties ---------------------------- *)
\* the arguments the convolutions are specified for
ValidInput ==
    /\ width >= 1 /\ height >= 1 /\ nchannels >= 1 /\ nkernels >= 1
    /\ kernel_order \in {1, 3, 5, 7}

\* multichannel_conv has returned / student_conv has returned
RefReturned == "multichannel_conv" \in calls /\ pc # "control_run"
StudentReturned ==
    "student_conv" \in calls /\ pc \in {"check", "check_run", "return", "exited"}

Cells == {<<m, w, h>> : m \in 0 .. nkernels - 1, w \in 0 .. width - 1,
                        h \in 0 .. height - 1}

RECURSIVE SetSum(_, _)
\* the sum of f over the finite set S
SetSum(f, S) ==
    IF S = {} THEN 0
    ELSE LET e == CHOOSE e \in S : TRUE IN f[e] + SetSum(f, S \ {e})

\* the convolution at (m, w, h): the sum over c, x, y of
\* image[w+x][h+y][c] * kernels[m][c][x][y]
ConvSum(m, w, h) ==
    LET T == (0 .. nchannels - 1) \X (0 .. kernel_order - 1) \X (0 .. kernel_order - 1)
    IN  SetSum([e \in T |-> ImageAt(((w + e[2]) * (height + kernel_order)
                                       + (h + e[3])) * nchannels + e[1])
                            * KernelAt(((m * nchannels + e[1]) * kernel_order
                                          + e[2]) * kernel_order + e[3])],
               T)

\* the cell [m][w][h] of an output tensor
Cell(a, e) == a.data[(e[1] * width + e[2]) * height + e[3]]

\* the sum of |control - candidate| over all cells
AbsDiffSum == SetSum([n \in DOMAIN output.data |->
                        Abs(control_output.data[n] - output.data[n])],
                     DOMAIN output.data)

\* C1: for every valid input and any number of threads, once multichannel_conv
\* and student_conv have both returned the two output tensors are equal cell by
\* cell (their sum of absolute differences is at most 0.0625) and check_result
\* does not classify the run as suspect.
C1_OptimizedMatchesReference ==
    (ValidInput /\ RefReturned /\ StudentReturned) =>
        /\ \A n \in DOMAIN output.data : output.data[n] # Uninit
        /\ AbsDiffSum <= EPSILON
        /\ verdict # "suspect"

\* C2: an iteration m of student_conv's parallel loop stores only into its own
\* slab output[m], and no cell is stored into by two different iterations.
C2_StoresStayInOwnSlab ==
    ValidInput =>
        /\ strayStores = {}
        /\ \A n \in DOMAIN outWrites :
             Cardinality({m \in DOMAIN outWrites[n] : outWrites[n][m] > 0}) <= 1

\* C3: for kernel_order = 1, student_conv leaves in every output[m][w][h] the sum
\* over c of image[w][h][c] * kernels[m][c][0][0], the value multichannel_conv
\* stores there.
C3_OrderOneExact ==
    (ValidInput /\ kernel_order = 1 /\ RefReturned /\ StudentReturned) =>
        \A e \in Cells :
            /\ Cell(output, e) = FloatRound(ConvSum(e[1], e[2], e[3]))
            /\ Cell(output, e) = Cell(control_output, e)

\* C4: for every valid shape and kernel order, when multichannel_conv has
\* returned every control_output[m][w][h] is the sum over c, x, y of
\* image[w+x][h+y][c] * kernels[m][c][x][y].
C4_ReferenceIsConvolution ==
    (ValidInput /\ RefReturned) =>
        \A e \in Cells :
            Cell(control_output, e) = FloatRound(ConvSum(e[1], e[2], e[3]))

\* C4 witness: multichannel_conv has returned from a call with a 3x3 window,
\* two channels and several cells, and left the convolution in every cell.
C4_Witness ==
    /\ pc = "student" /\ ValidInput
    /\ kernel_order = 3 /\ nchannels = 2 /\ width = 2
    /\ \A e \in Cells :
          /\ Cell(control_output, e) = FloatRound(ConvSum(e[1], e[2], e[3]))
          /\ Cell(control_output, e) > 0

\* the dimensions on a well-formed command line
HasArgs == Len(argv) + 1 = ArgcExpected
NonPositiveDim == HasArgs /\ (argv[1] <= 0 \/ argv[2] <= 0 \/ argv[4] <= 0 \/ argv[5] <= 0)

\* C5: a run given a non-positive width, height, nchannels or nkernels ends
\* fatally before multichannel_conv or student_conv is invoked.
C5_NonPositiveDimensionRejected ==
    NonPositiveDim =>
        /\ calls \cap {"multichannel_conv", "student_conv"} = {}
        /\ (pc = "exited" => exitStatus # 0)

\* C6: a run given a kernel_order other than 1, 3, 5, 7 ends with exit(1) before
\* any tensor is generated and invokes none of multichannel_conv, student_conv,
\* check_result; the functions are only entered with kernel_order in {1,3,5,7}.
C6_KernelOrderValidated ==
    /\ (HasArgs /\ argv[3] \notin {1, 3, 5, 7}) =>
          /\ ~generated
          /\ calls = {}
          /\ pc \in {"start", "switch", "exited"}
          /\ (pc = "exited" => exitStatus = 1)
    /\ (generated \/ calls # {}) => kernel_order \in {1, 3, 5, 7}

\* C6 witness: a run given kernel_order 2 has ended with status 1, nothing
\* generated and nothing invoked.
C6_Witness ==
    /\ HasArgs /\ argv[3] = 2 /\ argv[1] >= 1 /\ argv[5] >= 1
    /\ pc = "exited" /\ exitStatus = 1
    /\ ~generated /\ calls = {}

\* C7: when the two tensors handed to check_result have different dimensions,
\* check_result compares no element and the call does not end as a normal
\* verdict: the run is rejected.
C7_MismatchedShapesRejected ==
    ("check_result" \in calls /\ output.shape # control_output.shape) =>
        /\ chk.n = 0
        /\ verdict = "none"
        /\ exitStatus # 0

\* check_result was handed two tensors of the shape it was told
SameShapes ==
    /\ output.shape = control_output.shape
    /\ ("check_result" \in calls => output.shape = <<chk.dim0, chk.dim1, chk.dim2>>)

\* C8: check_result sums |control - result| over all cells, every term being
\* non-negative (the assertion never fails); it reports suspect exactly when the
\* sum exceeds 0.0625 and acceptable otherwise, returns normally either way,
\* and the run ends with status 0.
C8_VerdictByEpsilon ==
    SameShapes =>
        /\ pc # "crashed"
        /\ chk.sum_abs_diff >= 0
        /\ (verdict # "none") =>
              /\ chk.sum_abs_diff = AbsDiffSum
              /\ chk.n = Size3(output.shape)
              /\ (verdict = "suspect") <=> (AbsDiffSum * 10000 > 625 * Unit)
              /\ verdict \in {"suspect", "acceptable"}
        /\ pc = "exited" => (exitStatus = 0 /\ verdict # "none")

\* C8 witness: a run whose sum of absolute differences is exactly 0.0625 was
\* reported acceptable and ended with status 0.
C8_Witness ==
    /\ SameShapes /\ pc = "exited" /\ exitStatus = 0
    /\ Size3(output.shape) = 2
    /\ AbsDiffSum = EPSILON
    /\ verdict = "acceptable"

\* C9: every image element read by multichannel_conv and by student_conv has
\* its first index in [0, width + kernel_order), its second in
\* [0, height + kernel_order) and its third in [0, nchannels).
C9_ImageReadsInShape == ValidInput => oobReads = {}

\* the stores into cell n by all iterations of student_conv's loop
StoresInto(n) == SetSum(outWrites[n], DOMAIN outWrites[n])

\* C10: during one call of multichannel_conv or student_conv on valid inputs each
\* cell of the output tensor is written exactly once.
C10_EachCellWrittenOnce ==
    /\ (ValidInput /\ RefReturned) =>
          \A n \in DOMAIN ctlWrites : ctlWrites[n] = 1
    /\ (ValidInput /\ StudentReturned) =>
          \A n \in DOMAIN outWrites : StoresInto(n) = 1

\* a call of student_conv on valid arguments is in progress
StudentRunning == ValidInput /\ pc = "parallel"

\* C11: under fair scheduling of the threads every call of student_conv on
\* valid arguments returns, and the run goes on to check_result and its verdict.
C11_StudentConvReturns == StudentRunning ~> (StudentReturned /\ verdict # "none")

====
